---- MODULE Spec2Model ----
(***************************************************************************)
(* Model of the Watchful construct of cdk-watchful (src/src/watchful.ts).  *)
(*                                                                         *)
(* The state is the construct tree as far as Watchful touches it: the      *)
(* Watchful roots and their three private fields, the SNS topics created   *)
(* under them, the subscriptions of every topic, the dashboards and their  *)
(* widgets, the CfnOutputs, the alarm actions of the alarms handed to      *)
(* addAlarm, the aspects added by watchScope and the watchers created by   *)
(* the watch* factory methods.  The watcher classes are other modules of   *)
(* the library; their constructors call back into the root through         *)
(* addSection, addAlarm and addWidgets, which a factory step includes.     *)
(*                                                                         *)
(* An optional value (a TypeScript `x?: T`) is a sequence of length 0      *)
(* (undefined) or 1 (the value).  lastCall records the latest call of a    *)
(* public method, numbered, so that properties can speak of one call.      *)
(***************************************************************************)
EXTENDS Integers, Sequences, FiniteSets, TLC

VARIABLES roots, topics, topicSubs, dashboards, outputs,
          alarmActions, aspects, watchers, returned, lastCall

vars == <<roots, topics, topicSubs, dashboards, outputs,
          alarmActions, aspects, watchers, returned, lastCall>>

(***************************************************************************)
(* Bounds and input alphabets                                              *)
(***************************************************************************)
\* number of calls of the public methods made after construction
MaxCalls == 2

Roots == {"w1", "w2"}

Absent == <<>>

Some(x) == <<x>>

\* JavaScript truthiness of an optional string: undefined and "" are falsy
TruthyStr(o) == o # Absent /\ o[1] # ""

\* JavaScript truthiness of an optional object reference
TruthyObj(o) == o # Absent

ExternalTopic == <<"stack", "ExternalTopic">>

NewTopicId(r) == <<r, "AlarmTopic">>

DashId(r) == <<r, "Dashboard">>

OutputId(r) == <<r, "WatchfulDashboard">>

AllTopics == {ExternalTopic} \cup {NewTopicId(r) : r \in Roots}

Emails == {Absent, Some(""), Some("ops@example.com")}

Queues == {Absent, Some("AlarmQueue")}

TopicRefs == {Absent, Some(ExternalTopic)}

DashboardNames == {Absent, Some(""), Some("MyDash")}

ArnLists == {Absent, Some(<<>>), Some(<<"arn:one", "arn:two">>)}

DashboardFlags == {Absent, Some(TRUE), Some(FALSE)}

\* WatchfulProps
WatchfulProps ==
  [alarmEmail : Emails, alarmSqs : Queues, alarmSns : TopicRefs,
   dashboardName : DashboardNames, alarmActionArns : ArnLists,
   dashboard : DashboardFlags]

\* props = { }
EmptyProps ==
  [alarmEmail |-> Absent, alarmSqs |-> Absent, alarmSns |-> Absent,
   dashboardName |-> Absent, alarmActionArns |-> Absent, dashboard |-> Absent]

(***************************************************************************)
(* The constructor, statement by statement                                 *)
(***************************************************************************)
\* line 72: props.alarmActionArns ?? []
CtorAlarmActionArns(p) ==
  IF p.alarmActionArns # Absent THEN p.alarmActionArns[1] ELSE <<>>

\* faulty variant of CtorCreatesTopic: the test of alarmSns is lost
CtorCreatesTopic_IgnoresSns(p) ==
  TruthyStr(p.alarmEmail) \/ TruthyObj(p.alarmSqs)

\* line 74: (props.alarmEmail || props.alarmSqs) && !props.alarmSns
CtorCreatesTopic(p) ==
  (TruthyStr(p.alarmEmail) \/ TruthyObj(p.alarmSqs)) /\ ~TruthyObj(p.alarmSns)

\* faulty variant of CtorAlarmTopic: the provided topic is used only when no email
\* or queue is given
CtorAlarmTopic_NewTopicWins(r, p) ==
  IF TruthyStr(p.alarmEmail) \/ TruthyObj(p.alarmSqs) THEN Some(NewTopicId(r))
  ELSE p.alarmSns

\* lines 74-80: the value of this.alarmTopic
CtorAlarmTopic(r, p) ==
  IF TruthyObj(p.alarmSns) THEN p.alarmSns
  ELSE IF CtorCreatesTopic(p) THEN Some(NewTopicId(r))
  ELSE Absent

EmailSubscription(email) == [protocol |-> "email", endpoint |-> email]

SqsSubscription(queue) == [protocol |-> "sqs", endpoint |-> queue]

\* faulty variant of CtorSubscriptions: the queue is subscribed only when no email is
\* given (the second `if` turned into `else if`)
CtorSubscriptions_ElseIf(r, p) ==
  IF TruthyStr(p.alarmEmail) /\ TruthyObj(CtorAlarmTopic(r, p))
    THEN <<EmailSubscription(p.alarmEmail[1])>>
  ELSE IF TruthyObj(p.alarmSqs) /\ TruthyObj(CtorAlarmTopic(r, p))
    THEN <<SqsSubscription(p.alarmSqs[1])>>
  ELSE <<>>

\* lines 82-95: the subscriptions added, in order, to this.alarmTopic
CtorSubscriptions(r, p) ==
  (IF TruthyStr(p.alarmEmail) /\ TruthyObj(CtorAlarmTopic(r, p))
     THEN <<EmailSubscription(p.alarmEmail[1])>> ELSE <<>>)
  \o
  (IF TruthyObj(p.alarmSqs) /\ TruthyObj(CtorAlarmTopic(r, p))
     THEN <<SqsSubscription(p.alarmSqs[1])>> ELSE <<>>)

\* faulty variant of CtorThrows: `!props.dashboard` in place of `=== false`
CtorThrows_NotDashboard(p) == p.dashboard # Some(TRUE) /\ TruthyStr(p.dashboardName)

\* line 97: props.dashboard === false && props.dashboardName
CtorThrows(p) == p.dashboard = Some(FALSE) /\ TruthyStr(p.dashboardName)

\* faulty variant of CtorCreatesDashboard: `props.dashboard` in place of `!== false`
CtorCreatesDashboard_OnlyTrue(p) == p.dashboard = Some(TRUE)

\* line 100: props.dashboard !== false
CtorCreatesDashboard(p) == p.dashboard # Some(FALSE)

\* linkForDashboard
linkForDashboard(d) ==
  <<"https://console.aws.amazon.com/cloudwatch/home?region=", "AWS::Region",
    "#dashboards:name=", <<"Ref", d>> >>

Alarms == {"alarm1", "alarm2"}

NoCall == [n |-> 0, op |-> "none"]

NewRoot ==
  [status |-> "new", props |-> EmptyProps, alarmActionArns |-> <<>>,
   alarmTopic |-> Absent, dash |-> Absent]

NoDashboard == [created |-> FALSE, dashboardName |-> Absent, widgets |-> <<>>]

Init ==
  /\ roots = [r \in Roots |-> NewRoot]
  /\ topics = {}
  /\ topicSubs = [t \in AllTopics |-> <<>>]
  /\ dashboards = [r \in Roots |-> NoDashboard]
  /\ outputs = {}
  /\ alarmActions = [a \in Alarms |-> <<>>]
  /\ aspects = <<>>
  /\ watchers = <<>>
  /\ returned = Absent
  /\ lastCall = NoCall

\* new Watchful(scope, r, p): the statements before the throw of line 98
\* take effect whether or not it is reached; a construction that throws
\* leaves the root "failed" and it is never handed to the caller.
Construct(r, p) ==
  /\ roots[r].status = "new"
  /\ roots' = [roots EXCEPT ![r] =
        [status |-> IF CtorThrows(p) THEN "failed" ELSE "ok",
         props |-> p,
         alarmActionArns |-> CtorAlarmActionArns(p),
         alarmTopic |-> CtorAlarmTopic(r, p),
         dash |-> IF ~CtorThrows(p) /\ CtorCreatesDashboard(p)
                    THEN Some(DashId(r)) ELSE Absent]]
  /\ topics' = IF CtorCreatesTopic(p)
                 THEN topics \cup {[id |-> NewTopicId(r), displayName |-> "Watchful Alarms"]}
                 ELSE topics
  /\ topicSubs' = IF CtorAlarmTopic(r, p) # Absent
                    THEN [topicSubs EXCEPT ![CtorAlarmTopic(r, p)[1]] = @ \o CtorSubscriptions(r, p)]
                    ELSE topicSubs
  /\ dashboards' = IF ~CtorThrows(p) /\ CtorCreatesDashboard(p)
                     THEN [dashboards EXCEPT ![r] =
                             [created |-> TRUE, dashboardName |-> p.dashboardName, widgets |-> <<>>]]
                     ELSE dashboards
  /\ outputs' = IF ~CtorThrows(p) /\ CtorCreatesDashboard(p)
                  THEN outputs \cup {[id |-> OutputId(r), value |-> linkForDashboard(DashId(r))]}
                  ELSE outputs
  /\ UNCHANGED <<alarmActions, aspects, watchers, returned, lastCall>>

(***************************************************************************)
(* The public methods                                                      *)
(***************************************************************************)
WidgetLists ==
  {<<>>, <<[type |-> "custom", id |-> "A"]>>,
   <<[type |-> "custom", id |-> "B"], [type |-> "custom", id |-> "A"]>>}

\* (title, SectionOptions) of the addSection calls; options = {} by default
SectionArgs ==
  {[title |-> "Orders", options |-> <<>>],
   [title |-> "Billing", options |-> [links |-> <<"https://example.com/runbook">>]]}

Scopes == {"stack"}

\* WatchfulAspectProps, optional
AspectOptions == {Absent, Some([dynamodb |-> FALSE])}

\* what the constructor of a watcher does with the root it is given: whether
\* it adds its section, the alarm it attaches (if any), the widgets it adds
NoCallbacks == [section |-> FALSE, alarm |-> Absent, widgets |-> <<>>]

AllCallbacks ==
  [section |-> TRUE, alarm |-> Some("alarm2"), widgets |-> <<[type |-> "custom", id |-> "G"]>>]

\* a resource other than the one handed to the method
OtherResource == [kind |-> "other", uniqueId |-> "StackOther"]

\* (title, resource-specific options) of the watch* calls, options = {} by
\* default, and the behaviour of the watcher created.  prop is the name of the
\* resource property of the method.  The options are an object of any shape:
\* the third one carries a title, a watchful and a resource of its own, as the
\* props object of a watcher does.
WatchArgs(prop) ==
  {[title |-> "Orders", options |-> <<>>, callbacks |-> AllCallbacks],
   [title |-> "Billing", options |-> [threshold |-> "80"], callbacks |-> NoCallbacks],
   [title |-> "Orders",
    options |-> (prop :> OtherResource) @@ [title |-> "Overridden", watchful |-> "w2"],
    callbacks |-> AllCallbacks]}

Table == [kind |-> "dynamodb.Table", uniqueId |-> "StackTable"]

RestApi == [kind |-> "apigw.RestApi", uniqueId |-> "StackApi"]

Function == [kind |-> "lambda.Function", uniqueId |-> "StackFn"]

Cluster == [kind |-> "rds.DatabaseCluster", uniqueId |-> "StackCluster"]

FargateService == [kind |-> "ecs.FargateService", uniqueId |-> "StackFargate"]

Ec2Service == [kind |-> "ecs.Ec2Service", uniqueId |-> "StackEc2"]

TargetGroup == [kind |-> "ApplicationTargetGroup", uniqueId |-> "StackTg"]

\* the call counter of the latest call
Called(op, r, args) == args @@ [n |-> lastCall.n + 1, op |-> op, root |-> r]

CanCall(r) == roots[r].status = "ok" /\ lastCall.n < MaxCalls

\* faulty variant of addWidgets: the optional chaining is lost and the widgets are
\* recorded whether or not a dashboard was created
addWidgets_Unguarded(d, r, widgets) ==
  [d EXCEPT ![r].widgets = @ \o widgets]

\* this.dash?.addWidgets(...widgets): the dashboards after the call, d being
\* the dashboards before it
addWidgets(d, r, widgets) ==
  IF roots[r].dash # Absent
    THEN [d EXCEPT ![r].widgets = @ \o widgets]
    ELSE d

AddWidgets(r, widgets) ==
  /\ CanCall(r)
  /\ dashboards' = addWidgets(dashboards, r, widgets)
  /\ lastCall' = Called("addWidgets", r, [widgets |-> widgets])
  /\ UNCHANGED <<roots, topics, topicSubs, outputs, alarmActions, aspects, watchers, returned>>

\* new cloudwatch_actions.SnsAction(topic)
SnsAction(topic) == [action |-> "SnsAction", target |-> topic]

\* alarmActionForArn
alarmActionForArn(arn) == [action |-> "bind", target |-> <<arn>>]

\* faulty variant of addAlarm: the notification action is added after the ARN actions
addAlarm_SnsLast(r) ==
  [i \in 1..Len(roots[r].alarmActionArns) |-> alarmActionForArn(roots[r].alarmActionArns[i])]
  \o
  (IF TruthyObj(roots[r].alarmTopic) THEN <<SnsAction(roots[r].alarmTopic[1])>> ELSE <<>>)

\* the actions one addAlarm call hands to alarm.addAlarmAction, in order
addAlarm(r) ==
  (IF TruthyObj(roots[r].alarmTopic) THEN <<SnsAction(roots[r].alarmTopic[1])>> ELSE <<>>)
  \o
  [i \in 1..Len(roots[r].alarmActionArns) |-> alarmActionForArn(roots[r].alarmActionArns[i])]

\* faulty variant of AddAlarm: the list of ARNs is consumed by the call
AddAlarm_ConsumesArns(r, alarm) ==
  /\ CanCall(r)
  /\ alarmActions' = [alarmActions EXCEPT ![alarm] = @ \o addAlarm(r)]
  /\ roots' = [roots EXCEPT ![r].alarmActionArns = <<>>]
  /\ lastCall' = Called("addAlarm", r, [alarm |-> alarm])
  /\ UNCHANGED <<topics, topicSubs, dashboards, outputs, aspects, watchers, returned>>

AddAlarm(r, alarm) ==
  /\ CanCall(r)
  /\ alarmActions' = [alarmActions EXCEPT ![alarm] = @ \o addAlarm(r)]
  /\ lastCall' = Called("addAlarm", r, [alarm |-> alarm])
  /\ UNCHANGED <<roots, topics, topicSubs, dashboards, outputs, aspects, watchers, returned>>

\* new SectionWidget({ titleLevel: 1, titleMarkdown: title, quicklinks: options.links })
SectionWidget(title, options) ==
  [type |-> "section", titleLevel |-> 1, titleMarkdown |-> title,
   quicklinks |-> IF "links" \in DOMAIN options THEN Some(options.links) ELSE Absent]

\* this.addWidgets(new SectionWidget(...)): the dashboards after the call
addSection(d, r, title, options) ==
  addWidgets(d, r, <<SectionWidget(title, options)>>)

AddSection(r, title, options) ==
  /\ CanCall(r)
  /\ dashboards' = addSection(dashboards, r, title, options)
  /\ lastCall' = Called("addSection", r, [title |-> title, options |-> options])
  /\ UNCHANGED <<roots, topics, topicSubs, outputs, alarmActions, aspects, watchers, returned>>

\* new WatchfulAspect(this, options)
WatchfulAspect(r, options) == [type |-> "WatchfulAspect", watchful |-> r, props |-> options]

WatchScope(r, scope, options) ==
  /\ CanCall(r)
  /\ aspects' = Append(aspects, [scope |-> scope, aspect |-> WatchfulAspect(r, options)])
  /\ lastCall' = Called("watchScope", r, [scope |-> scope, options |-> options])
  /\ UNCHANGED <<roots, topics, topicSubs, dashboards, outputs, alarmActions, watchers, returned>>

\* new <type>(scope, id, props)
NewWatcher(type, scope, id, props) ==
  [type |-> type, scope |-> scope, id |-> id, props |-> props]

\* { ...base, ...options }: a later key replaces an earlier one
Spread(base, options) == options @@ base

watchDynamoTable(r, title, table, options) ==
  NewWatcher("WatchDynamoTable", r, table.uniqueId,
             Spread([title |-> title, watchful |-> r, table |-> table], options))

\* faulty variant of watchApiGateway: the watcher of another kind is created
watchApiGateway_WrongWatcher(r, title, restApi, options) ==
  NewWatcher("WatchLambdaFunction", r, restApi.uniqueId,
             Spread([title |-> title, watchful |-> r, restApi |-> restApi], options))

watchApiGateway(r, title, restApi, options) ==
  NewWatcher("WatchApiGateway", r, restApi.uniqueId,
             Spread([title |-> title, watchful |-> r, restApi |-> restApi], options))

watchLambdaFunction(r, title, fn, options) ==
  NewWatcher("WatchLambdaFunction", r, fn.uniqueId,
             Spread([title |-> title, watchful |-> r, fn |-> fn], options))

watchRdsAuroraCluster(r, title, cluster, options) ==
  NewWatcher("WatchRdsAurora", r, cluster.uniqueId,
             Spread([title |-> title, watchful |-> r, cluster |-> cluster], options))

watchFargateEcs(r, title, fargateService, targetGroup, options) ==
  NewWatcher("WatchEcsService", r, fargateService.uniqueId,
             Spread([title |-> title, watchful |-> r, fargateService |-> fargateService,
                     targetGroup |-> targetGroup], options))

watchEc2Ecs(r, title, ec2Service, targetGroup, options) ==
  NewWatcher("WatchEcsService", r, ec2Service.uniqueId,
             Spread([title |-> title, watchful |-> r, ec2Service |-> ec2Service,
                     targetGroup |-> targetGroup], options))

\* The constructor of a watcher (the sibling modules): it calls back into the
\* root it is given as `watchful`, through addSection, addAlarm and addWidgets.
\* The dashboards after it has run.
WatcherDashboards(watcher, callbacks) ==
  addWidgets(IF callbacks.section
               THEN addSection(dashboards, watcher.props.watchful, watcher.props.title, <<>>)
               ELSE dashboards,
             watcher.props.watchful, callbacks.widgets)

\* The alarm actions after the constructor of a watcher has run.
WatcherAlarmActions(watcher, callbacks) ==
  IF callbacks.alarm # Absent
    THEN [alarmActions EXCEPT ![callbacks.alarm[1]] = @ \o addAlarm(watcher.props.watchful)]
    ELSE alarmActions

\* a factory method creates the watcher, whose constructor runs, and returns it;
\* a root that options names as watchful is an object the caller holds, so its
\* constructor has returned
Factory(op, r, watcher, args, callbacks) ==
  /\ CanCall(r)
  /\ roots[watcher.props.watchful].status = "ok"
  /\ watchers' = Append(watchers, watcher)
  /\ dashboards' = WatcherDashboards(watcher, callbacks)
  /\ alarmActions' = WatcherAlarmActions(watcher, callbacks)
  /\ returned' = Some(watcher)
  /\ lastCall' = Called(op, r, args @@ [callbacks |-> callbacks])
  /\ UNCHANGED <<roots, topics, topicSubs, outputs, aspects>>

WatchDynamoTable(r, title, options, callbacks) ==
  Factory("watchDynamoTable", r, watchDynamoTable(r, title, Table, options),
          [title |-> title, resource |-> Table, options |-> options], callbacks)

WatchApiGateway(r, title, options, callbacks) ==
  Factory("watchApiGateway", r, watchApiGateway(r, title, RestApi, options),
          [title |-> title, resource |-> RestApi, options |-> options], callbacks)

WatchLambdaFunction(r, title, options, callbacks) ==
  Factory("watchLambdaFunction", r, watchLambdaFunction(r, title, Function, options),
          [title |-> title, resource |-> Function, options |-> options], callbacks)

WatchRdsAuroraCluster(r, title, options, callbacks) ==
  Factory("watchRdsAuroraCluster", r, watchRdsAuroraCluster(r, title, Cluster, options),
          [title |-> title, resource |-> Cluster, options |-> options], callbacks)

WatchFargateEcs(r, title, options, callbacks) ==
  Factory("watchFargateEcs", r, watchFargateEcs(r, title, FargateService, TargetGroup, options),
          [title |-> title, resource |-> FargateService, targetGroup |-> TargetGroup,
           options |-> options], callbacks)

WatchEc2Ecs(r, title, options, callbacks) ==
  Factory("watchEc2Ecs", r, watchEc2Ecs(r, title, Ec2Service, TargetGroup, options),
          [title |-> title, resource |-> Ec2Service, targetGroup |-> TargetGroup,
           options |-> options], callbacks)

\* the option combinations the roots of Spec are constructed with
OpsProps ==
  { EmptyProps,
    [EmptyProps EXCEPT !.alarmEmail = Some("ops@example.com"),
                       !.alarmActionArns = Some(<<"arn:one", "arn:two">>),
                       !.dashboard = Some(FALSE), !.dashboardName = Some("")],
    [EmptyProps EXCEPT !.alarmSqs = Some("AlarmQueue"), !.alarmSns = Some(ExternalTopic),
                       !.dashboard = Some(TRUE), !.dashboardName = Some("MyDash"),
                       !.alarmActionArns = Some(<<"arn:two">>)],
    [EmptyProps EXCEPT !.dashboard = Some(FALSE), !.dashboardName = Some("MyDash"),
                       !.alarmEmail = Some("ops@example.com")] }

Next ==
  \/ \E r \in Roots, p \in OpsProps : Construct(r, p)
  \/ \E r \in Roots, ws \in WidgetLists : AddWidgets(r, ws)
  \/ \E r \in Roots, a \in Alarms : AddAlarm(r, a)
  \/ \E r \in Roots, x \in SectionArgs : AddSection(r, x.title, x.options)
  \/ \E r \in Roots, s \in Scopes, o \in AspectOptions : WatchScope(r, s, o)
  \/ \E r \in Roots, x \in WatchArgs("table") : WatchDynamoTable(r, x.title, x.options, x.callbacks)
  \/ \E r \in Roots, x \in WatchArgs("restApi") : WatchApiGateway(r, x.title, x.options, x.callbacks)
  \/ \E r \in Roots, x \in WatchArgs("fn") : WatchLambdaFunction(r, x.title, x.options, x.callbacks)
  \/ \E r \in Roots, x \in WatchArgs("cluster") : WatchRdsAuroraCluster(r, x.title, x.options, x.callbacks)
  \/ \E r \in Roots, x \in WatchArgs("fargateService") : WatchFargateEcs(r, x.title, x.options, x.callbacks)
  \/ \E r \in Roots, x \in WatchArgs("ec2Service") : WatchEc2Ecs(r, x.title, x.options, x.callbacks)

Spec == Init /\ [][Next]_vars

\* one Watchful constructed with every combination of the options
NextCtor == \E p \in WatchfulProps : Construct("w1", p)

SpecCtor == Init /\ [][NextCtor]_vars

(***************************************************************************)
(* Properties of the constructor, checked under SpecCtor                   *)
(***************************************************************************)
\* an optional string that is given and not empty
Supplied(o) == o # Absent /\ o # Some("")

Constructed(r) == roots[r].status # "new"

TopicCreatedFor(r) == \E t \in topics : t.id = NewTopicId(r)

OutputExistsFor(r) == \E o \in outputs : o.id = OutputId(r)

Range(seq) == {seq[i] : i \in 1..Len(seq)}

\* the subscriptions the options ask for
RequestedSubs(p) ==
  (IF Supplied(p.alarmEmail) THEN {[protocol |-> "email", endpoint |-> p.alarmEmail[1]]} ELSE {})
  \cup
  (IF p.alarmSqs # Absent THEN {[protocol |-> "sqs", endpoint |-> p.alarmSqs[1]]} ELSE {})

\* C1: whatever the other options, construction fails with the configuration
\* error exactly when dashboard = false and dashboardName is non-empty.
C1_ThrowsIffNameWithoutDashboard ==
  \A r \in Roots : Constructed(r) =>
    (roots[r].status = "failed"
       <=> (roots[r].props.dashboard = Some(FALSE) /\ Supplied(roots[r].props.dashboardName)))

C1_Witness ==
  /\ roots["w1"].status = "failed"
  /\ roots["w1"].props.alarmEmail = Some("ops@example.com")
  /\ roots["w1"].props.alarmSns # Absent
  /\ roots["w1"].props.alarmActionArns # Absent

\* C2: a new topic is created if and only if a (non-empty) alarmEmail or an
\* alarmSqs is given and alarmSns is not; with no alarm destination option no
\* topic is created and the root holds no destination.
C2_TopicCreatedIff ==
  \A r \in Roots : Constructed(r) =>
    LET p == roots[r].props IN
    /\ TopicCreatedFor(r)
         <=> ((Supplied(p.alarmEmail) \/ p.alarmSqs # Absent) /\ p.alarmSns = Absent)
    /\ (p.alarmEmail = Absent /\ p.alarmSqs = Absent /\ p.alarmSns = Absent)
         => (topics = {} /\ roots[r].alarmTopic = Absent)

C2_Witness ==
  /\ roots["w1"].status = "ok"
  /\ roots["w1"].props.alarmEmail = Absent
  /\ roots["w1"].props.alarmSqs # Absent
  /\ TopicCreatedFor("w1")

\* C3: the root holds at most one destination; the subscriptions added are
\* one email subscription when alarmEmail is given plus one queue subscription
\* when alarmSqs is given, all on the held destination; without alarmSns that
\* destination is the one topic created.
C3_OneDestinationHoldsAllSubs ==
  \A r \in Roots : Constructed(r) =>
    LET p == roots[r].props IN
    /\ Len(roots[r].alarmTopic) <= 1
    /\ Cardinality(topics) <= 1
    /\ RequestedSubs(p) # {} => roots[r].alarmTopic # Absent
    /\ \A t \in AllTopics :
         IF roots[r].alarmTopic = Some(t)
           THEN /\ Range(topicSubs[t]) = RequestedSubs(p)
                /\ Len(topicSubs[t]) = Cardinality(RequestedSubs(p))
           ELSE topicSubs[t] = <<>>
    /\ (RequestedSubs(p) # {} /\ p.alarmSns = Absent)
         => /\ roots[r].alarmTopic = Some(NewTopicId(r))
            /\ Cardinality(topics) = 1
            /\ TopicCreatedFor(r)

C3_Witness ==
  /\ roots["w1"].status = "ok"
  /\ roots["w1"].props.alarmEmail = Some("ops@example.com")
  /\ roots["w1"].props.alarmSqs # Absent
  /\ roots["w1"].props.alarmSns = Absent
  /\ Len(topicSubs[NewTopicId("w1")]) = 2

\* C4: when alarmSns is given no topic is created, the held destination is the
\* provided topic, and the email and queue subscriptions go to it and to no
\* other topic.
C4_ProvidedTopicUsed ==
  \A r \in Roots : (Constructed(r) /\ roots[r].props.alarmSns # Absent) =>
    /\ topics = {}
    /\ roots[r].alarmTopic = roots[r].props.alarmSns
    /\ Range(topicSubs[roots[r].props.alarmSns[1]]) = RequestedSubs(roots[r].props)
    /\ \A t \in AllTopics \ {roots[r].props.alarmSns[1]} : topicSubs[t] = <<>>

C4_Witness ==
  /\ roots["w1"].status = "ok"
  /\ roots["w1"].props.alarmSns = Some(ExternalTopic)
  /\ roots["w1"].props.alarmEmail = Some("ops@example.com")
  /\ roots["w1"].props.alarmSqs # Absent
  /\ Len(topicSubs[ExternalTopic]) = 2

\* C5: after a successful construction a dashboard exists if and only if the
\* dashboard option was omitted or true, and the console-URL output exists if
\* and only if the dashboard does.
C5_DashboardIffEnabled ==
  \A r \in Roots : roots[r].status = "ok" =>
    /\ roots[r].dash # Absent <=> roots[r].props.dashboard \in {Absent, Some(TRUE)}
    /\ dashboards[r].created <=> roots[r].dash # Absent
    /\ OutputExistsFor(r) <=> roots[r].dash # Absent

C5_Witness ==
  /\ roots["w1"].status = "ok"
  /\ roots["w1"].props.dashboard = Absent
  /\ roots["w1"].dash = Some(DashId("w1"))
  /\ OutputExistsFor("w1")

\* C10: a construction that fails has had no effect: no topic was created and
\* no subscription was added to any topic.
C10_FailsBeforeAnyEffect ==
  \A r \in Roots : roots[r].status = "failed" =>
    /\ topics = {}
    /\ \A t \in AllTopics : topicSubs[t] = <<>>

(***************************************************************************)
(* Properties of the public methods, checked under Spec                    *)
(***************************************************************************)
\* a step that is a call of a public method
IsCall == lastCall'.n # lastCall.n

IsPrefix(s, t) == Len(s) <= Len(t) /\ SubSeq(t, 1, Len(s)) = s

\* the widgets an addWidgets or addSection call hands to the dashboard
WidgetsOfCall(c) ==
  IF c.op = "addWidgets" THEN c.widgets
  ELSE <<[type |-> "section", titleLevel |-> 1, titleMarkdown |-> c.title,
          quicklinks |-> IF "links" \in DOMAIN c.options
                           THEN Some(c.options.links) ELSE Absent]>>

\* C6: on a root constructed with dashboard = false, addWidgets and addSection
\* leave the whole root state unchanged; when a dashboard exists they append
\* exactly the given widgets to it.
C6_AddWidgetsNoOpWithoutDashboard ==
  [][(IsCall /\ lastCall'.op \in {"addWidgets", "addSection"}) =>
        LET r == lastCall'.root IN
        /\ roots[r].props.dashboard = Some(FALSE) =>
             /\ UNCHANGED <<roots, topics, topicSubs, dashboards, outputs,
                            alarmActions, aspects, watchers, returned>>
             /\ ~dashboards'[r].created
             /\ dashboards'[r].widgets = <<>>
        /\ roots[r].dash # Absent =>
             /\ dashboards'[r].widgets = dashboards[r].widgets \o WidgetsOfCall(lastCall')
             /\ \A q \in Roots \ {r} : dashboards'[q] = dashboards[q]
     ]_vars

C6_Witness ==
  /\ lastCall.n = 2
  /\ lastCall.op = "addSection"
  /\ roots[lastCall.root].props.dashboard = Some(FALSE)
  /\ \E q \in Roots : Len(dashboards[q].widgets) = 2

\* the ARNs configured at construction
ConfiguredArns(r) ==
  IF roots[r].props.alarmActionArns = Absent THEN <<>> ELSE roots[r].props.alarmActionArns[1]

\* C7: one addAlarm call appends to the alarm, if and only if the root holds a
\* destination, one notification action on that destination, and then one
\* action per configured ARN, in configured order; nothing else changes.
C7_AddAlarmActions ==
  [][(IsCall /\ lastCall'.op = "addAlarm") =>
        LET r == lastCall'.root
            a == lastCall'.alarm
            arns == ConfiguredArns(r)
            notify == IF roots[r].alarmTopic # Absent
                        THEN <<[action |-> "SnsAction", target |-> roots[r].alarmTopic[1]]>>
                        ELSE <<>>
        IN
        /\ alarmActions'[a] =
             alarmActions[a] \o notify
               \o [i \in 1..Len(arns) |-> [action |-> "bind", target |-> <<arns[i]>>]]
        /\ \A b \in Alarms \ {a} : alarmActions'[b] = alarmActions[b]
     ]_vars

C7_Witness ==
  /\ lastCall.op = "addAlarm"
  /\ roots[lastCall.root].alarmTopic # Absent
  /\ Len(roots[lastCall.root].alarmActionArns) = 2
  /\ Len(alarmActions[lastCall.alarm]) = 3
  /\ alarmActions[lastCall.alarm][1].action = "SnsAction"

WatchMethods ==
  {"watchDynamoTable", "watchApiGateway", "watchLambdaFunction",
   "watchRdsAuroraCluster", "watchFargateEcs", "watchEc2Ecs"}

\* the watcher type and the name of the resource property of each method
WatcherOf(op) ==
  CASE op = "watchDynamoTable" -> [type |-> "WatchDynamoTable", prop |-> "table"]
    [] op = "watchApiGateway" -> [type |-> "WatchApiGateway", prop |-> "restApi"]
    [] op = "watchLambdaFunction" -> [type |-> "WatchLambdaFunction", prop |-> "fn"]
    [] op = "watchRdsAuroraCluster" -> [type |-> "WatchRdsAurora", prop |-> "cluster"]
    [] op = "watchFargateEcs" -> [type |-> "WatchEcsService", prop |-> "fargateService"]
    [] op = "watchEc2Ecs" -> [type |-> "WatchEcsService", prop |-> "ec2Service"]

\* the value the watcher receives for a key of its props: the one in options
\* when options has the key, the method's own otherwise
Passed(c, key, own) == IF key \in DOMAIN c.options THEN c.options[key] ELSE own

\* C8 as claimed: the watcher a watch* call returns has the given title, the
\* given resource and the root the method was called on as its back-reference.
C8_WatcherGetsMethodArguments ==
  (lastCall.op \in WatchMethods) =>
    /\ returned[1].type = WatcherOf(lastCall.op).type
    /\ returned[1].props.title = lastCall.title
    /\ returned[1].props[WatcherOf(lastCall.op).prop] = lastCall.resource
    /\ returned[1].props.watchful = lastCall.root

\* C8, amended: a watch* call creates exactly one watcher, of the kind of the
\* method, under the root it was called on and named after the given resource,
\* and returns it; the watcher receives the given title, the given resource
\* and that root as its back-reference, except that a title, watchful or
\* resource key of options replaces the method's own; what the watcher
\* registers goes to the root it received and to no other.
C8_FactoryCreatesMatchingWatcher ==
  [][(IsCall /\ lastCall'.op \in WatchMethods) =>
        LET c == lastCall'
            w == watchers'[Len(watchers')]
        IN
        /\ Len(watchers') = Len(watchers) + 1
        /\ SubSeq(watchers', 1, Len(watchers)) = watchers
        /\ w.type = WatcherOf(c.op).type
        /\ w.scope = c.root
        /\ w.id = c.resource.uniqueId
        /\ w.props.title = Passed(c, "title", c.title)
        /\ w.props[WatcherOf(c.op).prop] = Passed(c, WatcherOf(c.op).prop, c.resource)
        /\ w.props.watchful = Passed(c, "watchful", c.root)
        /\ returned' = Some(w)
        /\ \A q \in Roots \ {w.props.watchful} : dashboards'[q] = dashboards[q]
        /\ (c.callbacks.section /\ roots[w.props.watchful].dash # Absent) =>
             /\ Len(dashboards'[w.props.watchful].widgets)
                  > Len(dashboards[w.props.watchful].widgets)
             /\ dashboards'[w.props.watchful]
                  .widgets[Len(dashboards[w.props.watchful].widgets) + 1].titleMarkdown
                  = w.props.title
     ]_vars

C8_Witness ==
  /\ lastCall.op = "watchApiGateway"
  /\ lastCall.root = "w1"
  /\ "watchful" \in DOMAIN lastCall.options
  /\ returned[1].scope = "w1"
  /\ returned[1].props.watchful = "w2"
  /\ returned[1].props.title = "Overridden"
  /\ returned[1].props.restApi = OtherResource
  /\ Len(watchers) = 2
  /\ Len(dashboards["w2"].widgets) > 0

\* the destination the options of a root resolve to
ResolvedTopic(r) ==
  LET p == roots[r].props IN
  IF p.alarmSns # Absent THEN p.alarmSns
  ELSE IF Supplied(p.alarmEmail) \/ p.alarmSqs # Absent THEN Some(NewTopicId(r))
  ELSE Absent

\* the root a call attaches alarms to: the root of an addAlarm call, the root a
\* watcher received as watchful
AttachedTo(c, ws) ==
  IF c.op = "addAlarm" THEN c.root ELSE ws[Len(ws)].props.watchful

\* C9: no call changes the destination, the ARN list or the dashboard a
\* constructed root holds, nor the topics, subscriptions and outputs; widget
\* lists and alarm actions only grow, and every alarm attached, directly or by
\* a watcher, receives the actions the construction options of the root it is
\* attached to determine.
C9_RootImmutableAfterConstruction ==
  [][/\ \A r \in Roots : roots[r].status = "ok" =>
          /\ roots'[r] = roots[r]
          /\ dashboards'[r].created = dashboards[r].created
          /\ dashboards'[r].dashboardName = dashboards[r].dashboardName
          /\ IsPrefix(dashboards[r].widgets, dashboards'[r].widgets)
     /\ \A a \in Alarms : IsPrefix(alarmActions[a], alarmActions'[a])
     /\ IsCall =>
          /\ UNCHANGED <<roots, topics, topicSubs, outputs>>
          /\ \A a \in Alarms :
               alarmActions'[a] # alarmActions[a] =>
                 /\ lastCall'.op \in {"addAlarm"} \cup WatchMethods
                 /\ SubSeq(alarmActions'[a], Len(alarmActions[a]) + 1, Len(alarmActions'[a]))
                      = LET r == AttachedTo(lastCall', watchers') IN
                        (IF ResolvedTopic(r) # Absent
                           THEN <<[action |-> "SnsAction", target |-> ResolvedTopic(r)[1]]>>
                           ELSE <<>>)
                        \o [i \in 1..Len(ConfiguredArns(r)) |->
                              [action |-> "bind", target |-> <<ConfiguredArns(r)[i]>>]]
     ]_vars

C9_Witness ==
  /\ lastCall.n = 2
  /\ lastCall.op = "addAlarm"
  /\ Len(alarmActions["alarm1"]) = 3
  /\ alarmActions["alarm2"] = alarmActions["alarm1"]

====
